---- MODULE Spec2Model ----
(***************************************************************************)
(* pico-pulse: the pulse generator of src/src/pulse_generator.rs.          *)
(*                                                                         *)
(* Software (one core, run to completion between hardware commands):       *)
(*   PulseGeneratorChannel::set_delay / set_width / set_trigger_edge_count *)
(*   / arm / triggered, on the two channels PulseGenerator::new builds.    *)
(* Hardware (runs on its own once commanded):                              *)
(*   one PIO state machine per channel executing the program assemble()    *)
(*   builds, its TX FIFO, one DMA channel per channel feeding that FIFO,   *)
(*   and the GPIO input the wait instructions sample.                      *)
(***************************************************************************)
EXTENDS Integers, Sequences, FiniteSets, TLC

(***************************************************************************)
(* Program constants                                                       *)
(***************************************************************************)
NUM_PULSES_MAX == 32

DMA_BUF_LEN == NUM_PULSES_MAX * 2 + 1

\* Depth of a state machine's TX FIFO when built with .buffers(OnlyTx):
\* the RX FIFO's four entries are joined to the TX FIFO's four.
FifoDepth == 8

\* A u32 is written as the 32-bit pattern TLC's integers hold: patterns with
\* the top bit set read as negative, so 0xFFFF_FFFF (u32::MAX) is -1.
U32_MAX == 0 - 1

(***************************************************************************)
(* Bounds of the model                                                     *)
(***************************************************************************)
\* the caller passes cycle counts 0..MaxArg
MaxArg == 2

\* the caller queues at most MaxSteps delays and MaxSteps widths in a run
MaxSteps == 2

Chans == {0, 1}

Pins == {0, 1}

Args == 0..MaxArg

\* what a DMA read of released stack memory may return
Words == 0..(MaxArg - 1)

VARIABLES
  trigger,            \* PulseGenerator.trigger, fixed at construction
  program,            \* the installed program, shared by both state machines
  delay,              \* [c] param.delay
  width,              \* [c] param.width
  trigger_edge_count, \* [c] param.trigger_edge_count
  sm,                 \* [c] self.sm is Some
  tx,                 \* [c] self.tx is Some
  dma_ch,             \* [c] self.dma_ch is Some
  tx_transfer,        \* [c] self.tx_transfer is Some
  cpu,                \* where the core is: "idle", inside arm(), or "panic"
  armCh,              \* the channel whose arm() is running
  ret,                \* what the last arm() returned
  buf,                \* [c] the words arm() wrote to its stack buffer `buf`
  bufLive,            \* [c] arm()'s stack frame, which holds `buf`, still exists
  dmaIdx,             \* [c] words the DMA channel has moved so far
  fifo,               \* [c] TX FIFO of the state machine
  smRun,              \* [c] state machine enabled
  smPc,               \* [c] program counter
  X, Y, OSR,          \* [c] scratch and output shift registers
  pin,                \* [c] level of the side-set output pin
  gpio,               \* [p] level of input pin p
  pair,               \* [c] the (delay, width) words the pulse-train loop loaded last
  loRun,              \* [c] cycles executed with the output LOW since it last fell
  hiRun,              \* [c] cycles executed with the output HIGH since it last rose
  edgesSeen,          \* [c] low-then-high (or high-then-low) passes of the gate's
                      \*     two waits since the arm-count word was pulled
  call                \* the last setter call: <<name, channel, argument>>

swVars == <<delay, width, trigger_edge_count, sm, tx, dma_ch, tx_transfer,
            cpu, armCh, ret>>

dmaVars == <<buf, bufLive, dmaIdx>>

smVars == <<smRun, smPc, X, Y, OSR, pin>>

obsVars == <<pair, loRun, hiRun, edgesSeen>>

vars == <<trigger, program, swVars, dmaVars, fifo, smVars, gpio, obsVars, call>>

(***************************************************************************)
(* assemble(): the PIO program.  Addresses are 0-based as in the hardware  *)
(* (set_origin(Some(0))); instruction at address a is program[a + 1].      *)
(* side = -1: the instruction carries no side-set and leaves the pin alone *)
(***************************************************************************)
Immediate == [kind |-> "Immediate"]

Edge(index, polarity) == [kind |-> "Edge", index |-> index, polarity |-> polarity]

Ins(op, a, b, side) == [op |-> op, a |-> a, b |-> b, side |-> side]

\* the edge-gate prologue, emitted for Trigger::Edge only
gate(trig, index) ==
  IF trig.kind = "Edge"
  THEN <<Ins("pull", 0, 0, -1), Ins("mov_y", 0, 0, -1)>>
       \o (IF trig.polarity = "Falling"
           THEN <<Ins("wait", 1, index, -1), Ins("wait", 0, index, -1)>>
           ELSE <<Ins("wait", 0, index, -1), Ins("wait", 1, index, -1)>>)
       \o <<Ins("jmp_y", 2, 0, -1)>>
  ELSE <<>>

\* address of loop_label
loop_label(trig) == IF trig.kind = "Edge" THEN 5 ELSE 0

\* the pulse-train loop, always emitted
train(l) ==
  << Ins("pull", 0, 0, -1), Ins("mov_x", 0, 0, -1),
     Ins("pull", 0, 0, -1), Ins("mov_y", 0, 0, -1),
     Ins("jmp_x", l + 4, 0, -1),
     Ins("jmp_y", l + 5, 0, 1),
     Ins("jmp", l, 0, 0) >>

assemble(trig, index) == gate(trig, index) \o train(loop_label(trig))

delay_label(trig) == loop_label(trig) + 4

width_label(trig) == loop_label(trig) + 5

loop_end(trig) == loop_label(trig) + 6

(***************************************************************************)
(* Construction: PulseGenerator::new                                       *)
(***************************************************************************)
Triggers == {Immediate} \cup {Edge(0, pol) : pol \in {"Rising", "Falling"}}

new(trig) ==
  /\ trigger = trig
  /\ program = assemble(trig, 0)
  /\ delay = [c \in Chans |-> <<>>]
  /\ width = [c \in Chans |-> <<>>]
  /\ trigger_edge_count = [c \in Chans |-> 0]
  /\ sm = [c \in Chans |-> TRUE]
  /\ tx = [c \in Chans |-> TRUE]
  /\ dma_ch = [c \in Chans |-> TRUE]
  /\ tx_transfer = [c \in Chans |-> FALSE]
  /\ cpu = "idle"
  /\ armCh = 0
  /\ ret = "none"
  /\ buf = [c \in Chans |-> <<>>]
  /\ bufLive = [c \in Chans |-> FALSE]
  /\ dmaIdx = [c \in Chans |-> 0]
  /\ fifo = [c \in Chans |-> <<>>]
  /\ smRun = [c \in Chans |-> TRUE]
  /\ smPc = [c \in Chans |-> 0]
  /\ X = [c \in Chans |-> 0]
  /\ Y = [c \in Chans |-> 0]
  /\ OSR = [c \in Chans |-> 0]
  /\ pin = [c \in Chans |-> 0]
  /\ pair = [c \in Chans |-> <<0, 0>>]
  /\ loRun = [c \in Chans |-> 0]
  /\ hiRun = [c \in Chans |-> 0]
  /\ edgesSeen = [c \in Chans |-> 0]
  /\ call = <<"none", 0, 0>>

Init ==
  /\ \E trig \in Triggers : new(trig)
  /\ \E level \in {0, 1} : gpio = [p \in Pins |-> IF p = 0 THEN level ELSE 0]

(***************************************************************************)
(* PulseGeneratorChannel: the setters                                      *)
(***************************************************************************)
\* u32::wrapping_sub in the place of saturating_sub
wrapping_sub(a, b) == IF a >= b THEN a - b ELSE U32_MAX - (b - a - 1)

\* u32::saturating_sub
saturating_sub(a, b) == IF a >= b THEN a - b ELSE 0

\* a set_delay that writes over the newest entry when the list is full
set_delay_overwrite(c, cycle) ==
  /\ cpu = "idle"
  /\ delay' = [delay EXCEPT ![c] =
       IF Len(@) >= NUM_PULSES_MAX
       THEN [@ EXCEPT ![NUM_PULSES_MAX] = saturating_sub(cycle, 1)]
       ELSE Append(@, saturating_sub(cycle, 1))]
  /\ UNCHANGED <<cpu, ret>>
  /\ UNCHANGED <<width, trigger_edge_count, sm, tx, dma_ch, tx_transfer, armCh>>
  /\ UNCHANGED <<trigger, program, dmaVars, fifo, smVars, gpio, obsVars>>

\* ArrayVec::push panics when the vector is full
set_delay(c, cycle) ==
  /\ cpu = "idle"
  /\ IF Len(delay[c]) >= NUM_PULSES_MAX
     THEN /\ cpu' = "panic"
          /\ UNCHANGED <<delay, ret>>
     ELSE /\ delay' = [delay EXCEPT ![c] = Append(@, saturating_sub(cycle, 1))]
          /\ UNCHANGED <<cpu, ret>>
  /\ UNCHANGED <<width, trigger_edge_count, sm, tx, dma_ch, tx_transfer, armCh>>
  /\ UNCHANGED <<trigger, program, dmaVars, fifo, smVars, gpio, obsVars>>

set_width(c, cycle) ==
  /\ cpu = "idle"
  /\ IF Len(width[c]) >= NUM_PULSES_MAX
     THEN /\ cpu' = "panic"
          /\ UNCHANGED <<width, ret>>
     ELSE /\ width' = [width EXCEPT ![c] = Append(@, saturating_sub(cycle, 1))]
          /\ UNCHANGED <<cpu, ret>>
  /\ UNCHANGED <<delay, trigger_edge_count, sm, tx, dma_ch, tx_transfer, armCh>>
  /\ UNCHANGED <<trigger, program, dmaVars, fifo, smVars, gpio, obsVars>>

set_trigger_edge_count(c, count) ==
  /\ cpu = "idle"
  /\ trigger_edge_count' =
       [trigger_edge_count EXCEPT ![c] = saturating_sub(count, 1)]
  /\ UNCHANGED <<delay, width, sm, tx, dma_ch, tx_transfer, cpu, armCh, ret>>
  /\ UNCHANGED <<trigger, program, dmaVars, fifo, smVars, gpio, obsVars>>

(***************************************************************************)
(* PulseGeneratorChannel::arm                                              *)
(*                                                                         *)
(* The state machine and the DMA channel run while arm() executes, so the  *)
(* call is cut at its hardware commands: arm_enter (length check, halt),   *)
(* arm_load (take tx, build buf, start the DMA), arm_exit (restart the     *)
(* state machine, store the handles, return: the stack frame is gone).     *)
(***************************************************************************)
\* the loop of lines 125-134: b is buf, d and w the two lists
RECURSIVE drain(_, _, _)
drain(b, d, w) ==
  LET b1 == IF d # <<>> THEN Append(b, Head(d)) ELSE b
      d1 == IF d # <<>> THEN Tail(d) ELSE d
  IN  IF w # <<>>
      THEN drain(Append(b1, Head(w)), d1, Tail(w))
      ELSE [buf |-> b1, delay |-> d1, width |-> w]

\* the stream without its leading arm-count word
encode_without_count(count, d, w) == drain(<<>>, d, w)

\* a stream built from copies of the two lists, the lists kept
encode_keep_lists(count, d, w) ==
  [buf |-> drain(<<count>>, d, w).buf, delay |-> d, width |-> w]

\* lines 122-134: the word stream and what is left of the two lists
encode(count, d, w) == drain(<<count>>, d, w)

\* line 114
lengths_match(c) == Len(delay[c]) = Len(width[c])

\* arm() halting the state machine before it has compared the lengths
arm_enter_halt_first(c) ==
  /\ cpu = "idle"
  /\ IF ~sm[c]
     THEN /\ cpu' = "panic"
          /\ UNCHANGED <<sm, armCh, ret, smRun>>
     ELSE IF ~lengths_match(c)
     THEN /\ ret' = "Err"
          /\ smRun' = [smRun EXCEPT ![c] = FALSE]
          /\ UNCHANGED <<sm, cpu, armCh>>
     ELSE /\ sm' = [sm EXCEPT ![c] = FALSE]
          /\ smRun' = [smRun EXCEPT ![c] = FALSE]
          /\ cpu' = "halted"
          /\ armCh' = c
          /\ UNCHANGED ret
  /\ UNCHANGED <<delay, width, trigger_edge_count, tx, dma_ch, tx_transfer>>
  /\ UNCHANGED <<trigger, program, dmaVars, fifo, smPc, X, Y, OSR, pin, gpio, obsVars, call>>

\* arm() halting every state machine of the PIO block, not only its own
arm_enter_halt_all(c) ==
  /\ cpu = "idle"
  /\ IF ~lengths_match(c)
     THEN /\ ret' = "Err"
          /\ UNCHANGED <<sm, cpu, armCh, smRun>>
     ELSE IF ~sm[c]
     THEN /\ cpu' = "panic"
          /\ UNCHANGED <<sm, armCh, ret, smRun>>
     ELSE /\ sm' = [sm EXCEPT ![c] = FALSE]
          /\ smRun' = [d \in Chans |-> FALSE]
          /\ cpu' = "halted"
          /\ armCh' = c
          /\ UNCHANGED ret
  /\ UNCHANGED <<delay, width, trigger_edge_count, tx, dma_ch, tx_transfer>>
  /\ UNCHANGED <<trigger, program, dmaVars, fifo, smPc, X, Y, OSR, pin, gpio, obsVars, call>>

\* lines 114-119
arm_enter(c) ==
  /\ cpu = "idle"
  /\ IF ~lengths_match(c)
     THEN /\ ret' = "Err"
          /\ UNCHANGED <<sm, cpu, armCh, smRun>>
     ELSE IF ~sm[c]
     THEN /\ cpu' = "panic"
          /\ UNCHANGED <<sm, armCh, ret, smRun>>
     ELSE /\ sm' = [sm EXCEPT ![c] = FALSE]
          /\ smRun' = [smRun EXCEPT ![c] = FALSE]
          /\ cpu' = "halted"
          /\ armCh' = c
          /\ UNCHANGED ret
  /\ UNCHANGED <<delay, width, trigger_edge_count, tx, dma_ch, tx_transfer>>
  /\ UNCHANGED <<trigger, program, dmaVars, fifo, smPc, X, Y, OSR, pin, gpio, obsVars, call>>

\* arm() restarting the state machine in the same breath as it starts the
\* transfer, before the commands of lines 145-148
arm_load_start_early(c) ==
  /\ cpu = "halted"
  /\ armCh = c
  /\ IF ~tx[c]
     THEN /\ cpu' = "panic"
          /\ UNCHANGED <<delay, width, tx, dma_ch, dmaVars, smRun>>
     ELSE LET e == encode(trigger_edge_count[c], delay[c], width[c])
          IN  /\ tx' = [tx EXCEPT ![c] = FALSE]
              /\ delay' = [delay EXCEPT ![c] = e.delay]
              /\ width' = [width EXCEPT ![c] = e.width]
              /\ IF ~dma_ch[c]
                 THEN /\ cpu' = "panic"
                      /\ UNCHANGED <<dma_ch, dmaVars, smRun>>
                 ELSE /\ dma_ch' = [dma_ch EXCEPT ![c] = FALSE]
                      /\ buf' = [buf EXCEPT ![c] = e.buf]
                      /\ bufLive' = [bufLive EXCEPT ![c] = TRUE]
                      /\ dmaIdx' = [dmaIdx EXCEPT ![c] = 0]
                      /\ smRun' = [smRun EXCEPT ![c] = TRUE]
                      /\ cpu' = "started"
  /\ UNCHANGED <<trigger_edge_count, sm, tx_transfer, armCh, ret>>
  /\ UNCHANGED <<trigger, program, fifo, smPc, X, Y, OSR, pin, gpio, obsVars, call>>

\* lines 120-143.  buf cannot overflow: the two lists hold at most
\* NUM_PULSES_MAX words each and DMA_BUF_LEN = 2 * NUM_PULSES_MAX + 1.
arm_load(c) ==
  /\ cpu = "halted"
  /\ armCh = c
  /\ IF ~tx[c]
     THEN /\ cpu' = "panic"
          /\ UNCHANGED <<delay, width, tx, dma_ch, dmaVars>>
     ELSE LET e == encode(trigger_edge_count[c], delay[c], width[c])
          IN  /\ tx' = [tx EXCEPT ![c] = FALSE]
              /\ delay' = [delay EXCEPT ![c] = e.delay]
              /\ width' = [width EXCEPT ![c] = e.width]
              /\ IF ~dma_ch[c]
                 THEN /\ cpu' = "panic"
                      /\ UNCHANGED <<dma_ch, dmaVars>>
                 ELSE /\ dma_ch' = [dma_ch EXCEPT ![c] = FALSE]
                      /\ buf' = [buf EXCEPT ![c] = e.buf]
                      /\ bufLive' = [bufLive EXCEPT ![c] = TRUE]
                      /\ dmaIdx' = [dmaIdx EXCEPT ![c] = 0]
                      /\ cpu' = "started"
  /\ UNCHANGED <<trigger_edge_count, sm, tx_transfer, armCh, ret>>
  /\ UNCHANGED <<trigger, program, fifo, smVars, gpio, obsVars, call>>

\* arm() returning without putting the state machine handle back
arm_exit_drop_sm(c) ==
  /\ cpu = "started"
  /\ armCh = c
  /\ smRun' = [smRun EXCEPT ![c] = TRUE]
  /\ tx_transfer' = [tx_transfer EXCEPT ![c] = TRUE]
  /\ bufLive' = [bufLive EXCEPT ![c] = FALSE]
  /\ ret' = "Ok"
  /\ cpu' = "idle"
  /\ UNCHANGED <<delay, width, trigger_edge_count, sm, tx, dma_ch, armCh>>
  /\ UNCHANGED <<trigger, program, buf, dmaIdx, fifo, smPc, X, Y, OSR, pin, gpio, obsVars, call>>

\* lines 145-149
arm_exit(c) ==
  /\ cpu = "started"
  /\ armCh = c
  /\ smRun' = [smRun EXCEPT ![c] = TRUE]
  /\ sm' = [sm EXCEPT ![c] = TRUE]
  /\ tx_transfer' = [tx_transfer EXCEPT ![c] = TRUE]
  /\ bufLive' = [bufLive EXCEPT ![c] = FALSE]
  /\ ret' = "Ok"
  /\ cpu' = "idle"
  /\ UNCHANGED <<delay, width, trigger_edge_count, tx, dma_ch, armCh>>
  /\ UNCHANGED <<trigger, program, buf, dmaIdx, fifo, smPc, X, Y, OSR, pin, gpio, obsVars, call>>

\* a report of the waveform's progress: done once the state machine has also
\* pulled every word out of the FIFO
is_done_drained(c) == dmaIdx[c] = Len(buf[c]) /\ fifo[c] = <<>>

\* single_buffer::Transfer::is_done
is_done(c) == dmaIdx[c] = Len(buf[c])

\* a triggered() that aborts unless there is a transfer and it is done
triggered_abort_until_done(c) ==
  /\ cpu = "idle"
  /\ cpu' = IF tx_transfer[c] /\ dmaIdx[c] = Len(buf[c]) THEN cpu ELSE "panic"
  /\ UNCHANGED <<delay, width, trigger_edge_count, sm, tx, dma_ch, tx_transfer, armCh, ret>>
  /\ UNCHANGED <<trigger, program, dmaVars, fifo, smVars, gpio, obsVars, call>>

\* line 152: panics on a channel without a transfer, otherwise returns
\* is_done(c) and changes nothing
triggered(c) ==
  /\ cpu = "idle"
  /\ cpu' = IF tx_transfer[c] THEN cpu ELSE "panic"
  /\ UNCHANGED <<delay, width, trigger_edge_count, sm, tx, dma_ch, tx_transfer, armCh, ret>>
  /\ UNCHANGED <<trigger, program, dmaVars, fifo, smVars, gpio, obsVars, call>>

(***************************************************************************)
(* The DMA channel: one word per step from the buffer to the TX FIFO,      *)
(* paced by the FIFO's data request (a full FIFO holds the channel back).  *)
(* The buffer is arm()'s local `buf`, handed over as Buffer<'static> by    *)
(* from_raw_parts_mut: once arm() has returned the stack it lay in is free *)
(* for reuse, and a read of it returns whatever is there by then.          *)
(***************************************************************************)
\* what a read of word i (1-based) of channel c's buffer may return
dma_read(c, i) == IF bufLive[c] THEN {buf[c][i]} ELSE Words

\* a DMA channel that ignores the FIFO's data request
dma_step_unpaced(c) ==
  /\ dmaIdx[c] < Len(buf[c])
  /\ \E w \in dma_read(c, dmaIdx[c] + 1) :
       fifo' = [fifo EXCEPT ![c] = Append(@, w)]
  /\ dmaIdx' = [dmaIdx EXCEPT ![c] = @ + 1]
  /\ UNCHANGED <<trigger, program, swVars, buf, bufLive, smVars, gpio, obsVars, call>>

dma_step(c) ==
  /\ dmaIdx[c] < Len(buf[c])
  /\ Len(fifo[c]) < FifoDepth
  /\ \E w \in dma_read(c, dmaIdx[c] + 1) :
       fifo' = [fifo EXCEPT ![c] = Append(@, w)]
  /\ dmaIdx' = [dmaIdx EXCEPT ![c] = @ + 1]
  /\ UNCHANGED <<trigger, program, swVars, buf, bufLive, smVars, gpio, obsVars, call>>

(***************************************************************************)
(* The state machine: one clock cycle.  A stalled pull or wait leaves the  *)
(* state as it is.                                                         *)
(***************************************************************************)
\* words the state machine has pulled out of the FIFO
pulled(c) == dmaIdx[c] - Len(fifo[c])

in_gate(c) == smPc[c] < loop_label(trigger)

\* the instruction at the program counter can execute in this cycle
can_exec(c) ==
  LET i == program[smPc[c] + 1]
  IN  CASE i.op = "pull" -> fifo[c] # <<>>
        [] i.op = "wait" -> gpio[i.b] = i.a
        [] OTHER -> TRUE

\* a loop that tests the register after the decrement: one pass fewer
jmp_dec_test_after(r, target, next) ==
  [pc |-> IF r > 1 THEN target ELSE next, r |-> IF r = 0 THEN U32_MAX ELSE r - 1]

\* JmpCondition::XDecNonZero / YDecNonZero: branch when the register is
\* non-zero before the decrement; the decrement always happens, and takes
\* 0 to 0xFFFF_FFFF
jmp_dec(r, target, next) ==
  [pc |-> IF r # 0 THEN target ELSE next, r |-> IF r = 0 THEN U32_MAX ELSE r - 1]

sm_cycle(c) ==
  LET i == program[smPc[c] + 1]
      next == (smPc[c] + 1) % Len(program)
      jx == jmp_dec(X[c], i.a, next)
      jy == jmp_dec(Y[c], i.a, next)
      level == IF i.side = -1 THEN pin[c] ELSE i.side
  IN
  /\ smRun[c]
  /\ can_exec(c)
  /\ smPc' = [smPc EXCEPT ![c] =
        CASE i.op = "jmp_x" -> jx.pc
          [] i.op = "jmp_y" -> jy.pc
          [] i.op = "jmp" -> i.a
          [] OTHER -> next]
  /\ fifo' = [fifo EXCEPT ![c] = IF i.op = "pull" THEN Tail(@) ELSE @]
  /\ OSR' = [OSR EXCEPT ![c] = IF i.op = "pull" THEN Head(fifo[c]) ELSE @]
  /\ X' = [X EXCEPT ![c] =
        CASE i.op = "mov_x" -> OSR[c]
          [] i.op = "jmp_x" -> jx.r
          [] OTHER -> @]
  /\ Y' = [Y EXCEPT ![c] =
        CASE i.op = "mov_y" -> OSR[c]
          [] i.op = "jmp_y" -> jy.r
          [] OTHER -> @]
  /\ pin' = [pin EXCEPT ![c] = level]
  /\ pair' = [pair EXCEPT ![c] =
        CASE i.op = "mov_x" -> <<OSR[c], @[2]>>
          [] i.op = "mov_y" /\ ~in_gate(c) -> <<@[1], OSR[c]>>
          [] OTHER -> @]
  /\ loRun' = [loRun EXCEPT ![c] =
        IF level = 1 THEN @ ELSE IF pin[c] = 1 THEN 1 ELSE @ + 1]
  /\ hiRun' = [hiRun EXCEPT ![c] =
        IF level = 0 THEN @ ELSE IF pin[c] = 0 THEN 1 ELSE @ + 1]
  /\ edgesSeen' = [edgesSeen EXCEPT ![c] =
        IF i.op = "pull" /\ smPc[c] = 0 /\ trigger.kind = "Edge" THEN 0
        ELSE IF i.op = "wait" /\ smPc[c] = 3 THEN @ + 1
        ELSE @]
  /\ UNCHANGED <<trigger, program, swVars, dmaVars, smRun, gpio, call>>

(***************************************************************************)
(* The trigger input changes level whenever the outside world likes.       *)
(***************************************************************************)
gpio_toggle(p) ==
  /\ gpio' = [gpio EXCEPT ![p] = 1 - @]
  /\ UNCHANGED <<trigger, program, swVars, dmaVars, fifo, smVars, obsVars, call>>

(***************************************************************************)
(* The system with channel 0 in use (what main.rs does with each channel), *)
(* the trigger on pin 0.                                                   *)
(***************************************************************************)
\* pairs arm() has moved from the two lists into buf
armed_steps(c) == IF buf[c] = <<>> THEN 0 ELSE (Len(buf[c]) - 1) \div 2

\* the caller has queued fewer than MaxSteps entries of list l so far
room(c, l) == Len(l) + armed_steps(c) < MaxSteps

Next ==
  \/ \E v \in Args : room(0, delay[0]) /\ set_delay(0, v) /\ UNCHANGED call
  \/ \E v \in Args : room(0, width[0]) /\ set_width(0, v) /\ UNCHANGED call
  \/ \E v \in Args : set_trigger_edge_count(0, v) /\ UNCHANGED call
  \/ arm_enter(0)
  \/ arm_load(0)
  \/ arm_exit(0)
  \/ triggered(0)
  \/ dma_step(0)
  \/ sm_cycle(0)
  \/ gpio_toggle(0)

Spec == Init /\ [][Next]_vars

(***************************************************************************)
(* The channel's software alone, the lists filled to capacity: the i-th    *)
(* delay queued is 2i + 2 cycles and the i-th width 2i + 3 (i from 0), so  *)
(* every stored word differs from every other.                              *)
(***************************************************************************)
fill_delay(i) == 2 * i + 2

fill_width(i) == 2 * i + 3

NextFill ==
  \/ ~tx_transfer[0] /\ set_delay(0, fill_delay(Len(delay[0]))) /\ UNCHANGED call
  \/ ~tx_transfer[0] /\ set_width(0, fill_width(Len(width[0]))) /\ UNCHANGED call
  \/ \E v \in Args : set_trigger_edge_count(0, v) /\ UNCHANGED call
  \/ arm_enter(0)
  \/ arm_load(0)
  \/ arm_exit(0)

SpecFill == Init /\ [][NextFill]_vars

(***************************************************************************)
(* The three setters over the width of a u32 (as far as TLC's integers     *)
(* reach), each call logged with its argument.                             *)
(***************************************************************************)
WideArgs == Args \cup {2147483646, 2147483647}

\* the caller queues at most EncSteps entries per list
EncSteps == 1

NextEncode ==
  \/ \E v \in WideArgs :
       Len(delay[0]) < EncSteps /\ set_delay(0, v) /\ call' = <<"set_delay", 0, v>>
  \/ \E v \in WideArgs :
       Len(width[0]) < EncSteps /\ set_width(0, v) /\ call' = <<"set_width", 0, v>>
  \/ \E v \in WideArgs :
       set_trigger_edge_count(0, v) /\ call' = <<"set_trigger_edge_count", 0, v>>

SpecEncode == Init /\ [][NextEncode]_vars

(***************************************************************************)
(* Streams longer than the TX FIFO: the caller queues up to LongSteps      *)
(* one-cycle steps, a delay and then its width as main.rs does, and arms   *)
(* once (what a second arm() does is in Spec).  The DMA channel and the    *)
(* state machine are hardware and keep going whenever they can; the core   *)
(* keeps executing an arm() it has begun.  Nothing makes the trigger input *)
(* move.                                                                   *)
(***************************************************************************)
LongSteps == 5

InitLong ==
  /\ \E trig \in {Immediate, Edge(0, "Rising")} : new(trig)
  /\ gpio = [p \in Pins |-> 0]

NextLong ==
  \/ /\ ~tx_transfer[0]
     /\ Len(delay[0]) = Len(width[0])
     /\ Len(delay[0]) < LongSteps
     /\ set_delay(0, 1)
     /\ UNCHANGED call
  \/ /\ ~tx_transfer[0]
     /\ Len(width[0]) < Len(delay[0])
     /\ set_width(0, 1)
     /\ UNCHANGED call
  \/ ~tx_transfer[0] /\ arm_enter(0)
  \/ arm_load(0)
  \/ arm_exit(0)
  \/ dma_step(0)
  \/ sm_cycle(0)
  \/ gpio_toggle(0)

SpecLong ==
  /\ InitLong
  /\ [][NextLong]_vars
  /\ WF_vars(arm_load(0))
  /\ WF_vars(arm_exit(0))
  /\ WF_vars(dma_step(0))
  /\ WF_vars(sm_cycle(0))

(***************************************************************************)
(* C1: arm() returns Ok whenever the two lists have the same length, on an *)
(* Unarmed channel and on an Armed one alike.  arm() never gives up the    *)
(* run once the length check has passed: no arm() that has taken the       *)
(* state machine handle (line 118) ends in a panic.                        *)
(***************************************************************************)
C1_ArmSucceedsInEveryState ==
  \A c \in Chans : ~(cpu = "panic" /\ armCh = c /\ ~sm[c])

(***************************************************************************)
(* C2: for as long as the transfer arm() started still has words to read,  *)
(* the memory it reads is the buffer arm() filled: the buffer is not       *)
(* released while the DMA channel can still read it.                       *)
(***************************************************************************)
C2_BufferOutlivesTransfer ==
  \A c \in Chans : dmaIdx[c] < Len(buf[c]) => bufLive[c]

(***************************************************************************)
(* C3: an arm() on lists of different length returns Err and changes       *)
(* nothing: the lists, the stored arm count, the handles, the existing     *)
(* transfer, the state machine (not halted) and the rest of the hardware   *)
(* are as before the call.                                                 *)
(***************************************************************************)
C3_MismatchChangesNothing ==
  [][\A c \in Chans :
       (cpu = "idle" /\ ~lengths_match(c) /\ ret' # ret /\ ret' \in {"Ok", "Err"})
       => /\ ret' = "Err"
          /\ UNCHANGED <<delay, width, trigger_edge_count, sm, tx, dma_ch,
                         tx_transfer, cpu, dmaVars, fifo, smVars>>]_vars

\* a failed arm() on a channel that holds an ArmedTransfer and is running
C3_Witness ==
  /\ ret = "Err"
  /\ ~lengths_match(0)
  /\ tx_transfer[0]
  /\ smRun[0]
  /\ cpu = "idle"

(***************************************************************************)
(* C4: with the Immediate trigger the arm-count word is not part of what   *)
(* the pulse-train loop consumes: the first pair it loads is               *)
(* (delay0, width0), words 2 and 3 of the stream arm() built.              *)
(***************************************************************************)
C4_ImmediateFirstPair ==
  \A c \in Chans :
    ( /\ trigger.kind = "Immediate"
      /\ Len(buf[c]) >= 3
      /\ pulled(c) = 2
      /\ smPc[c] = delay_label(trigger) )
    => pair[c] = <<buf[c][2], buf[c][3]>>

(***************************************************************************)
(* C5: arm() on k matched steps builds the stream                          *)
(* [armCount, delay0, width0, delay1, width1, ...] of 1 + 2k words, pairs  *)
(* in insertion order: decoding what arm() put in buf gives back the       *)
(* stored arm count and the k (delay, width) pairs the lists held.         *)
(***************************************************************************)
\* reading a stream back: the count word, then the pairs
decode(s) ==
  [count |-> s[1],
   steps |-> [i \in 1..((Len(s) - 1) \div 2) |-> <<s[2 * i], s[2 * i + 1]>>]]

C5_StreamRoundTrip ==
  [][\A c \in Chans :
       (cpu = "halted" /\ cpu' = "started" /\ armCh = c)
       => LET k == Len(delay[c])
          IN  /\ k <= NUM_PULSES_MAX
              /\ Len(buf'[c]) = 1 + 2 * k
              /\ decode(buf'[c]) =
                   [count |-> trigger_edge_count[c],
                    steps |-> [i \in 1..k |-> <<delay[c][i], width[c][i]>>]]]_vars

\* arm() has just built the longest stream: 32 pairs, 65 words
C5_Witness ==
  /\ cpu = "started"
  /\ Len(buf[0]) = DMA_BUF_LEN
  /\ buf[0][2] # buf[0][3]

(***************************************************************************)
(* C6: with an Edge trigger and the arm count set to N (0 counting as 1),  *)
(* the pulse-train loop makes its first pull after exactly N passes of the *)
(* gate's pair of waits, N being what arm() encoded: word 1 of the stream  *)
(* holds N - 1.                                                            *)
(***************************************************************************)
C6_GateWaitsForArmCount ==
  \A c \in Chans :
    ( /\ trigger.kind = "Edge"
      /\ smPc[c] = loop_label(trigger)
      /\ pulled(c) = 1 )
    => edgesSeen[c] = buf[c][1] + 1

(***************************************************************************)
(* C7: a pair (d, w) loaded by the pulse-train loop gives LOW for d + 1    *)
(* cycles, then HIGH for w + 1 cycles.  Stated where the HIGH phase ends.  *)
(***************************************************************************)
C7_LowExactlyDelayPlusOne ==
  \A c \in Chans :
    smPc[c] = loop_end(trigger)
    => /\ loRun[c] = pair[c][1] + 1
       /\ hiRun[c] = pair[c][2] + 1

\* the first pair after the state machine started, or a later one
first_pair(c) == pulled(c) = (IF trigger.kind = "Edge" THEN 3 ELSE 2)

\* C7 as amended: HIGH lasts exactly w + 1 cycles; the LOW before it spans
\* the d + 1 cycles of the delay loop and the 4 cycles that load the pair,
\* and after an earlier pulse exactly one more, the closing jump: d + 6.
C7_PulseShape ==
  \A c \in Chans :
    smPc[c] = loop_end(trigger)
    => /\ pin[c] = 1
       /\ hiRun[c] = pair[c][2] + 1
       /\ loRun[c] >= pair[c][1] + 5
       /\ ~first_pair(c) => loRun[c] = pair[c][1] + 6

\* the HIGH phase of a second pulse has ended, both words of its pair non-zero
C7_Witness ==
  /\ smPc[0] = loop_end(trigger)
  /\ ~first_pair(0)
  /\ pair[0][1] > 0
  /\ pair[0][2] > 0

(***************************************************************************)
(* C8: once every word of the stream has been consumed and the state       *)
(* machine blocks on a pull, that pull is the one at the top of the        *)
(* pulse-train loop and the output is LOW, for both kinds of trigger.      *)
(***************************************************************************)
stalled_on_pull(c) ==
  /\ smRun[c]
  /\ program[smPc[c] + 1].op = "pull"
  /\ fifo[c] = <<>>

C8_StallsAtLoopTopLow ==
  \A c \in Chans :
    (tx_transfer[c] /\ is_done(c) /\ stalled_on_pull(c))
    => /\ smPc[c] = loop_label(trigger)
       /\ pin[c] = 0

(***************************************************************************)
(* C9: delivery does not wait for the state machine: while the state       *)
(* machine is held at a wait of the gate, the TX FIFO has room for every   *)
(* word the DMA channel has still to move, whatever the stream's length.   *)
(***************************************************************************)
held_at_gate(c) ==
  /\ smRun[c]
  /\ program[smPc[c] + 1].op = "wait"
  /\ ~can_exec(c)

stored(c) ==
  CASE call[1] = "set_delay" -> delay[c][Len(delay[c])]
    [] call[1] = "set_width" -> width[c][Len(width[c])]
    [] OTHER -> trigger_edge_count[c]

C10_SaturatingEncode ==
  call[1] # "none"
  => LET n == call[3]
         v == stored(call[2])
     IN  /\ (n = 0 \/ n = 1) => v = 0
         /\ n >= 1 => v = n - 1
         /\ v # U32_MAX

\* set_delay(0) was the last call
C10_Witness ==
  /\ call = <<"set_delay", 0, 0>>
  /\ Len(delay[0]) = EncSteps

(***************************************************************************)
(* C11: a set_delay or set_width call on a list that already holds         *)
(* NUM_PULSES_MAX entries is rejected (ArrayVec::push aborts the call) and *)
(* leaves the list as it was.  Each list holds at most NUM_PULSES_MAX      *)
(* entries, a call between two arm()s either appends one entry behind the  *)
(* ones already accepted or changes nothing, and the stream arm() builds   *)
(* has at most DMA_BUF_LEN = 65 words.                                     *)
(***************************************************************************)
\* list m is list l, or l with one entry appended
extends(l, m) ==
  \/ m = l
  \/ /\ Len(m) = Len(l) + 1
     /\ SubSeq(m, 1, Len(l)) = l

C11_CapacityRejects ==
  /\ [](\A c \in Chans :
          /\ Len(delay[c]) <= NUM_PULSES_MAX
          /\ Len(width[c]) <= NUM_PULSES_MAX
          /\ Len(buf[c]) <= DMA_BUF_LEN)
  /\ [][\A c \in Chans :
          cpu = "idle"
          => /\ extends(delay[c], delay'[c])
             /\ extends(width[c], width'[c])
             /\ Len(delay[c]) = NUM_PULSES_MAX => delay'[c] = delay[c]
             /\ Len(width[c]) = NUM_PULSES_MAX => width'[c] = width[c]
             /\ ( /\ Len(delay[c]) = NUM_PULSES_MAX
                  /\ set_delay(c, fill_delay(NUM_PULSES_MAX)) )
                => cpu' = "panic"
             /\ ( /\ Len(width[c]) = NUM_PULSES_MAX
                  /\ set_width(c, fill_width(NUM_PULSES_MAX)) )
                => cpu' = "panic"]_vars

\* the 33rd set_delay was rejected: the 32 accepted entries are as queued
C11_Witness ==
  /\ cpu = "panic"
  /\ Len(delay[0]) = NUM_PULSES_MAX
  /\ \A i \in 1..NUM_PULSES_MAX : delay[0][i] = fill_delay(i - 1) - 1

(***************************************************************************)
(* The generator built with an Edge trigger on any input pin, every input  *)
(* pin free to move: channel 0 armed with the arm count alone.             *)
(***************************************************************************)
PinTriggers == {Edge(p, pol) : p \in Pins, pol \in {"Rising", "Falling"}}

InitPins ==
  /\ \E trig \in PinTriggers : new(trig)
  /\ gpio = [p \in Pins |-> 0]

NextPins ==
  \/ \E v \in Args : set_trigger_edge_count(0, v) /\ UNCHANGED call
  \/ arm_enter(0)
  \/ arm_load(0)
  \/ arm_exit(0)
  \/ dma_step(0)
  \/ sm_cycle(0)
  \/ \E p \in Pins : gpio_toggle(p)

SpecPins == InitPins /\ [][NextPins]_vars

(***************************************************************************)
(* C12: built with Trigger::Edge{index = p}, the gate waits on input pin   *)
(* p, for every p: whenever the state machine is at one of the gate's      *)
(* waits, it can go on exactly when pin p is at the level that wait asks   *)
(* for, so that no other pin advances the gate and pin p does.             *)
(***************************************************************************)
C12_GateWaitsOnConfiguredPin ==
  \A c \in Chans :
    ( /\ trigger.kind = "Edge"
      /\ smRun[c]
      /\ in_gate(c)
      /\ program[smPc[c] + 1].op = "wait" )
    => (can_exec(c) <=> gpio[trigger.index] = program[smPc[c] + 1].a)

(***************************************************************************)
(* Both channels in use, with the trigger of main.rs (a rising edge on pin *)
(* 0, at either level to begin with): the core runs one call at a time     *)
(* on either channel, the two state machines and the two DMA channels run  *)
(* on their own, in any order.  Each channel gets at most DualSteps steps  *)
(* of one cycle and is armed once (what a second arm() does is in Spec).   *)
(***************************************************************************)
DualSteps == 1

InitDual ==
  /\ new(Edge(0, "Rising"))
  /\ \E level \in {0, 1} : gpio = [p \in Pins |-> IF p = 0 THEN level ELSE 0]

NextDual ==
  \/ \E c \in Chans :
       /\ ~tx_transfer[c]
       /\ Len(delay[c]) < DualSteps
       /\ set_delay(c, 1)
       /\ UNCHANGED call
  \/ \E c \in Chans :
       /\ ~tx_transfer[c]
       /\ Len(width[c]) < DualSteps
       /\ set_width(c, 1)
       /\ UNCHANGED call
  \/ \E c \in Chans, v \in Args :
       /\ ~tx_transfer[c]
       /\ set_trigger_edge_count(c, v)
       /\ UNCHANGED call
  \/ \E c \in Chans : ~tx_transfer[c] /\ arm_enter(c)
  \/ \E c \in Chans : arm_load(c)
  \/ \E c \in Chans : arm_exit(c)
  \/ \E c \in Chans : triggered(c)
  \/ \E c \in Chans : dma_step(c)
  \/ \E c \in Chans : sm_cycle(c)
  \/ gpio_toggle(0)

SpecDual == InitDual /\ [][NextDual]_vars

(***************************************************************************)
(* C13: the two channels are resource-disjoint.  Any call on channel c     *)
(* (set_delay, set_width, set_trigger_edge_count, arm, triggered) and any  *)
(* step of c's state machine or DMA channel leaves the other channel's     *)
(* lists, arm count, handles, transfer, FIFO, state machine (enable, pc,   *)
(* registers) and output pin as they were, in every interleaving; no step  *)
(* changes both channels.                                                  *)
(***************************************************************************)
\* what belongs to channel c
channel(c) ==
  <<delay[c], width[c], trigger_edge_count[c], sm[c], tx[c], dma_ch[c],
    tx_transfer[c], buf[c], bufLive[c], dmaIdx[c], fifo[c],
    smRun[c], smPc[c], X[c], Y[c], OSR[c], pin[c]>>

\* a call on channel c, or a step of its hardware
operation(c) ==
  \/ \E v \in Args : set_delay(c, v)
  \/ \E v \in Args : set_width(c, v)
  \/ \E v \in Args : set_trigger_edge_count(c, v)
  \/ arm_enter(c)
  \/ arm_load(c)
  \/ arm_exit(c)
  \/ triggered(c)
  \/ dma_step(c)
  \/ sm_cycle(c)

sm_state(c) == <<smPc[c], X[c], Y[c], OSR[c], pin[c]>>

C14_HaltLoadStart ==
  /\ [](\A c \in Chans :
          (cpu \in {"halted", "started"} /\ armCh = c) => ~smRun[c])
  /\ [][\A c \in Chans :
          /\ (smRun[c] /\ ~smRun'[c])
             => (cpu = "idle" /\ lengths_match(c) /\ cpu' = "halted")
          /\ (~bufLive[c] /\ bufLive'[c])
             => (cpu = "halted" /\ cpu' = "started" /\ ~smRun[c] /\ ~smRun'[c])
          /\ (~smRun[c] /\ smRun'[c])
             => (cpu = "started" /\ cpu' = "idle" /\ bufLive[c])
          /\ ~smRun[c]
             => (UNCHANGED sm_state(c) /\ Len(fifo'[c]) >= Len(fifo[c]))]_vars

\* the transfer has begun to fill the FIFO of the state machine arm() halted;
\* the state machine is still halted at the instruction it was halted on
C14_Witness ==
  /\ cpu = "started"
  /\ armCh = 0
  /\ ~smRun[0]
  /\ Len(buf[0]) >= 3
  /\ Len(fifo[0]) >= 2

(***************************************************************************)
(* C15: arm() restarts the state machine from the program's entry point    *)
(* wherever it was when arm() halted it.  An arm() that has halted the     *)
(* state machine away from the entry point, or with a word left in its     *)
(* FIFO, goes on to restart it: it does not abort and leave it halted      *)
(* there.                                                                  *)
(***************************************************************************)
\* address of the program's first instruction (set_origin(Some(0)))
entry_point == 0

C15_RestartsFromAnywhere ==
  \A c \in Chans :
    ( /\ armCh = c
      /\ ~sm[c]
      /\ ~smRun[c]
      /\ (smPc[c] # entry_point \/ fifo[c] # <<>>) )
    => cpu \in {"halted", "started"}

(***************************************************************************)
(* C16: triggered() reports the DMA delivery and nothing else.  What it    *)
(* returns turns true only in a step of the DMA channel that moves the     *)
(* last word, the state machine not having acted, and turns false only     *)
(* when arm() starts a transfer; so it is true while the state machine     *)
(* still has words in its FIFO, is inside the pulse-train loop, or has     *)
(* not yet seen a trigger edge.                                            *)
(***************************************************************************)
C16_ReportsDeliveryOnly ==
  [][\A c \in Chans :
       /\ (~is_done(c) /\ is_done(c)')
          => (dmaIdx'[c] = dmaIdx[c] + 1 /\ UNCHANGED sm_state(c))
       /\ (is_done(c) /\ ~is_done(c)')
          => (cpu = "halted" /\ cpu' = "started" /\ armCh = c)]_vars

\* triggered() returns true: every word is delivered, yet the gate has seen no
\* edge, no pulse has been emitted and the steps are still in the FIFO
C16_Witness ==
  /\ trigger.kind = "Edge"
  /\ cpu = "idle"
  /\ tx_transfer[0]
  /\ is_done(0)
  /\ Len(buf[0]) >= 3
  /\ Len(fifo[0]) >= 2
  /\ in_gate(0)
  /\ edgesSeen[0] = 0
  /\ hiRun[0] = 0
  /\ pin[0] = 0

C18_TriggeredNeedsTransfer ==
  [][\A c \in Chans :
       /\ (triggered(c) /\ ~tx_transfer[c]) => cpu' = "panic"
       /\ (triggered(c) /\ tx_transfer[c]) => cpu' = "idle"
       /\ (~tx_transfer[c] /\ tx_transfer'[c])
          => (cpu = "started" /\ armCh = c /\ ret' = "Ok")]_vars

\* triggered() has aborted on a channel whose only arm() so far failed: the
\* channel still holds all three handles
C18_Witness ==
  /\ cpu = "panic"
  /\ ret = "Err"
  /\ ~tx_transfer[0]
  /\ sm[0]
  /\ tx[0]
  /\ dma_ch[0]

(***************************************************************************)
(* C19: ownership of the hardware handles.  Between calls the channel      *)
(* holds its state machine handle, and holds the TX handle and the DMA     *)
(* channel exactly when it holds no transfer; once a transfer exists it    *)
(* stays, and the two handles it took never come back to the channel.      *)
(***************************************************************************)
C19_HandleOwnership ==
  /\ [](cpu = "idle"
        => \A c \in Chans :
             /\ sm[c]
             /\ tx[c] <=> ~tx_transfer[c]
             /\ dma_ch[c] <=> ~tx_transfer[c])
  /\ [][\A c \in Chans :
          /\ tx_transfer[c] => tx_transfer'[c]
          /\ ~tx[c] => ~tx'[c]
          /\ ~dma_ch[c] => ~dma_ch'[c]]_vars

\* between calls on an armed channel whose stream has been delivered and
\* consumed: the transfer owns the TX handle and the DMA channel
C19_Witness ==
  /\ cpu = "idle"
  /\ tx_transfer[0]
  /\ sm[0]
  /\ ~tx[0]
  /\ ~dma_ch[0]
  /\ is_done(0)
  /\ stalled_on_pull(0)
  /\ tx[1]
  /\ dma_ch[1]

====
